---- MODULE Spec2Model ----
(***************************************************************************)
(* Model of main.py, the DART disclosure notification bot: module startup, *)
(* the scheduler loop, check_new_disclosures and the seen-set file.        *)
(* Time is counted in minutes since Monday 00:00 UTC.  The process can be  *)
(* stopped from outside at any step and started again; the seen-set file   *)
(* and the clock are the only state that survives.                         *)
(***************************************************************************)
EXTENDS Integers, Sequences, FiniteSets, TLC

\* ------------------------------------------------------------- bounds
NumReceipts == 2
MaxSnapLen == 2
MaxElapsed == 1

\* --------------------------------------------------- program constants
KstOffsetHours == 9
OpenHour == 8
CloseHour == 21
WeekendStart == 5
SleepSeconds == 60

\* ------------------------------------------------------------- values
Receipts == 1..NumReceipts
NoKey == 0

\* A fetched list entry: its rcept_no (NoKey when the key is missing) and
\* whether corp_name, report_nm and rcept_dt are all present.
Records ==
    {[rcept_no |-> r, complete |-> TRUE] : r \in Receipts}
        \cup {[rcept_no |-> NoKey, complete |-> TRUE],
              [rcept_no |-> 1, complete |-> FALSE]}

RECURSIVE SeqsUpTo(_, _)
SeqsUpTo(S, n) ==
    IF n = 0 THEN {<<>>}
    ELSE LET shorter == SeqsUpTo(S, n - 1)
         IN shorter \cup {Append(s, x) : s \in {t \in shorter : Len(t) = n - 1}, x \in S}

Snapshots == SeqsUpTo(Records, MaxSnapLen)

\* What requests.get can produce for the listing endpoint.
Responses ==
    {[raised |-> TRUE, status_code |-> 0, status |-> "", list |-> <<>>]}
        \cup {[raised |-> FALSE, status_code |-> 500, status |-> "", list |-> <<>>]}
        \cup {[raised |-> FALSE, status_code |-> 200, status |-> s, list |-> <<>>] :
                s \in {"013", "020"}}
        \cup {[raised |-> FALSE, status_code |-> 200, status |-> "000", list |-> l] :
                l \in Snapshots}

\* What requests.post can produce for sendMessage.
PostResults == {"200", "non200", "raised"}

\* The host's offset from UTC in minutes: UTC, Seoul, Los Angeles, Kathmandu.
HostUtc == 0
HostOffsets == {HostUtc, 540, 0 - 480, 345}

\* The three environment variables, at most one of them missing, and the
\* host's timezone, TZ.
Configs ==
    {[DART_API_KEY |-> TRUE, BOT_TOKEN |-> TRUE, CHAT_ID |-> TRUE, TZ |-> HostUtc],
     [DART_API_KEY |-> FALSE, BOT_TOKEN |-> TRUE, CHAT_ID |-> TRUE, TZ |-> HostUtc],
     [DART_API_KEY |-> TRUE, BOT_TOKEN |-> FALSE, CHAT_ID |-> TRUE, TZ |-> HostUtc],
     [DART_API_KEY |-> TRUE, BOT_TOKEN |-> TRUE, CHAT_ID |-> FALSE, TZ |-> HostUtc]}

\* The seen-set file: absent, a complete JSON array, or a cut-off write.
Absent == [kind |-> "absent", ids |-> {}]
Json(S) == [kind |-> "json", ids |-> S]
Partial == [kind |-> "partial", ids |-> {}]

\* The UTC minute of a UTC+9 wall-clock time (weekday 0 = Monday) of week 1.
UtcOfKst(weekday, hour, minute) ==
    7 * 1440 + weekday * 1440 + hour * 60 + minute - KstOffsetHours * 60

\* Just before a mark: Monday 07:59 and 08:29, Friday 21:59, Saturday 10:29.
StartTimes ==
    {UtcOfKst(0, 7, 59), UtcOfKst(0, 8, 29), UtcOfKst(4, 21, 59),
     UtcOfKst(5, 10, 29)}

\* The requests of the longest cycle: one fetch and a send for each record.
LongestCycle == 1 + MaxSnapLen

\* Tuesday 08:29: the startup cycle is open and runs across the 08:30 mark.
BlockedStart == UtcOfKst(1, 8, 29)

\* How many minutes the model follows a start: BlockedStart for as long as
\* the requests of its startup cycle can take.
Horizon(s) == IF s = BlockedStart THEN LongestCycle ELSE MaxElapsed

Jobs == {0, 30}

VARIABLES
    now,                  \* wall clock, UTC minutes
    file,                 \* seen_disclosures.json
    config,               \* the environment variables
    pc,                   \* position of the process
    exc,                  \* the uncaught exception that ended the process
    caller,               \* who called check_new_disclosures
    pending,              \* run_pending's runnable jobs, in order
    next_run,             \* each job's next_run
    korean_time,          \* check_new_disclosures' korean_time
    current_disclosures,
    seen_disclosures,
    idx,                  \* position of the for loop
    new_count,
    \* history
    tracked,              \* the receipt number the history follows
    outcome,              \* how the latest cycle ended
    cyc,                  \* what the latest cycle did
    prevFetch,            \* list fetched by the cycle that ended last, or none
    okCount,              \* deliveries of tracked: 0, 1, 2 = more than one
    anyFail,              \* some delivery failed
    okBefore,             \* tracked was delivered in an earlier process lifetime
    okLife,               \* tracked was delivered in this process lifetime
    everStored,           \* the file has held tracked
    tries,                \* send calls for tracked since a cycle that made one was cut short
    boot                  \* what this process lifetime did at startup

progVars == <<pc, exc, caller, pending, next_run, korean_time,
              current_disclosures, seen_disclosures, idx, new_count>>
histVars == <<tracked, outcome, cyc, prevFetch, okCount, anyFail,
              okBefore, okLife, everStored, tries, boot>>
vars == <<now, file, config, progVars, histVars>>

\* ------------------------------------------------------- time policy
\* Mutant: datetime.now() without the KST argument, the host's local time.
get_korean_time_naive(t) == t + config.TZ

\* Lines 19-21: datetime.now(KST), the epoch clock shifted to UTC+9 whatever
\* the host's timezone is.
get_korean_time(t) == t + KstOffsetHours * 60

Weekday(k) == (k \div 1440) % 7
Hour(k) == (k % 1440) \div 60
Minute(k) == k % 60

\* Mutant: the weekend is taken for business days.
is_business_day_always(t) == TRUE

is_business_day(t) == Weekday(get_korean_time(t)) < WeekendStart

\* Mutant: the closing hour taken one hour late.
is_business_hours_late(t) ==
    IF ~is_business_day(t) THEN FALSE
    ELSE OpenHour <= Hour(get_korean_time(t)) /\ Hour(get_korean_time(t)) <= CloseHour + 1

is_business_hours(t) ==
    IF ~is_business_day(t) THEN FALSE
    ELSE OpenHour <= Hour(get_korean_time(t)) /\ Hour(get_korean_time(t)) <= CloseHour

should_check_disclosures(t) ==
    IF ~is_business_day(t) THEN FALSE
    ELSE IF ~is_business_hours(t) THEN FALSE
    ELSE TRUE

\* ------------------------------------------------------ seen-set store
\* Mutant: every error of the load is caught and answered with an empty set.
load_seen_disclosures_swallow(f) ==
    [raised |-> "none", value |-> IF f.kind = "json" THEN f.ids ELSE {}]

\* load_seen_disclosures: only FileNotFoundError is caught.
load_seen_disclosures(f) ==
    IF f.kind = "json" THEN [raised |-> "none", value |-> f.ids]
    ELSE IF f.kind = "absent" THEN [raised |-> "none", value |-> {}]
    ELSE [raised |-> "JSONDecodeError", value |-> {}]

\* open(SEEN_DISCLOSURES_FILE, 'w') truncates the file in place.
save_open(f) == Partial

\* json.dump and the close of the with block complete the file.
save_write(f, seen_set) == Json(seen_set)

\* ---------------------------------------------------- disclosure source
\* Mutant: no except clause, a transport failure propagates.
get_dart_disclosures_uncaught(r) ==
    IF r.raised THEN [raised |-> "RequestException", value |-> <<>>]
    ELSE IF r.status_code = 200 /\ r.status = "000"
         THEN [raised |-> "none", value |-> r.list]
         ELSE [raised |-> "none", value |-> <<>>]

\* get_dart_disclosures: the list it returns; its except clause catches
\* whatever requests.get or the decoding raises.
get_dart_disclosures(r) ==
    IF r.raised THEN [raised |-> "none", value |-> <<>>]
    ELSE IF r.status_code = 200
         THEN IF r.status = "000" THEN [raised |-> "none", value |-> r.list]
              ELSE IF r.status = "013" THEN [raised |-> "none", value |-> <<>>]
              ELSE [raised |-> "none", value |-> <<>>]
         ELSE [raised |-> "none", value |-> <<>>]

\* Mutant: the early return is missing.
NothingFetched_never(list) == FALSE

\* Line 154: if not current_disclosures.
NothingFetched(list) == list = <<>>

\* What the registry can answer: without an API key it never lists records.
Upstream ==
    IF config.DART_API_KEY THEN Responses
    ELSE {r \in Responses : r.status # "000" /\ r.status # "013"}

\* ------------------------------------------------------------ notifier
\* Mutant: no except clause, a transport failure propagates.
send_telegram_message_uncaught(post) ==
    IF post = "raised" THEN [raised |-> "RequestException", value |-> "failed"]
    ELSE IF post = "200" THEN [raised |-> "none", value |-> "sent"]
    ELSE [raised |-> "none", value |-> "failed"]

\* send_telegram_message: every outcome of the post is caught and logged.
send_telegram_message(post) ==
    IF post = "raised" THEN [raised |-> "none", value |-> "failed"]
    ELSE IF post = "200" THEN [raised |-> "none", value |-> "sent"]
    ELSE [raised |-> "none", value |-> "failed"]

\* Mutant: the receipt number is not added.
MarkSeen_forgotten(seen_set, receipt_no) == seen_set

\* Line 175: seen_disclosures.add(receipt_no).
MarkSeen(seen_set, receipt_no) == seen_set \cup {receipt_no}

\* What the chat API can answer: without credentials it never accepts.
Channel ==
    IF config.BOT_TOKEN /\ config.CHAT_ID THEN PostResults
    ELSE PostResults \ {"200"}

\* ------------------------------------------------------------ schedule
\* every().hour.at(":MM"): the first minute after t whose minute is MM.
\* Mutant: every 30 minutes counted from the call, not from the hour.
NextMark_interval(t, mm) == t + 30

\* The schedule library reads the host's local clock.
NextMark(t, mm) == CHOOSE u \in (t + 1)..(t + 60) : Minute(u + config.TZ) = mm

\* run_pending: the jobs whose next_run has come, ordered by next_run.
Runnable(t) ==
    LET due == {j \in Jobs : next_run[j] <= t}
    IN
    IF due = {} THEN <<>>
    ELSE IF Cardinality(due) = 1 THEN <<CHOOSE j \in due : TRUE>>
    ELSE IF next_run[30] < next_run[0] THEN <<30, 0>> ELSE <<0, 30>>

\* ------------------------------------------------------------- helpers
NoFetch == <<[rcept_no |-> NoKey, complete |-> FALSE]>>
NoResponse == [raised |-> FALSE, status_code |-> 0, status |-> "none", n |-> 0]

FreshCycle ==
    [fetched |-> FALSE, loaded |-> FALSE, saved |-> FALSE, calls |-> 0,
     failed |-> FALSE, same |-> FALSE, resp |-> NoResponse, file0 |-> file,
     sent |-> <<>>]

\* Nothing done yet at startup: no announcement, no initial check.
NoTime == 0 - 1
FreshBoot == [announces |-> 0, initAt |-> NoTime, initRan |-> FALSE]

\* The clock may move by d minutes while the model stays within its horizon.
CanAdvance(d) ==
    \E s \in StartTimes \cup {BlockedStart} : now + d \in s..(s + Horizon(s))

Bump(n) == IF n < 2 THEN n + 1 ELSE n

\* An exception nobody catches ends the process.
Raise(e) ==
    /\ pc' = "dead"
    /\ exc' = e
    /\ UNCHANGED <<caller, pending, next_run, korean_time>>

\* check_new_disclosures returns at time t; a scheduled job is then rescheduled.
Return(o, t, fetched) ==
    /\ outcome' = o
    /\ prevFetch' = fetched
    /\ current_disclosures' = <<>>
    /\ seen_disclosures' = {}
    /\ idx' = 0
    /\ new_count' = 0
    /\ IF caller = "init"
       THEN /\ pc' = "run_pending"
            /\ UNCHANGED <<pending, next_run>>
       ELSE /\ pc' = "jobs"
            /\ pending' = Tail(pending)
            /\ next_run' = [next_run EXCEPT ![Head(pending)] = NextMark(t, Head(pending))]

\* --------------------------------------------------------------- Init
\* Before the first start: no file, nothing run.
Fresh ==
    /\ file = Absent
    /\ pc = "boot"
    /\ exc = "none"
    /\ caller = "none"
    /\ pending = <<>>
    /\ next_run = [j \in Jobs |-> 0]
    /\ korean_time = 0
    /\ current_disclosures = <<>>
    /\ seen_disclosures = {}
    /\ idx = 0
    /\ new_count = 0
    /\ outcome = "none"
    /\ cyc = FreshCycle
    /\ prevFetch = NoFetch
    /\ okCount = 0
    /\ anyFail = FALSE
    /\ okBefore = FALSE
    /\ okLife = FALSE
    /\ everStored = FALSE
    /\ tries = 0
    /\ boot = FreshBoot

Init ==
    /\ now \in StartTimes
    /\ config \in Configs
    /\ tracked \in Receipts
    /\ Fresh

\* ------------------------------------------------------------ startup
\* Mutant: CHAT_ID is not looked at.
AllConfigured_partial(c) == c.DART_API_KEY /\ c.BOT_TOKEN

\* Line 228: if DART_API_KEY and BOT_TOKEN and CHAT_ID.
AllConfigured(c) == c.DART_API_KEY /\ c.BOT_TOKEN /\ c.CHAT_ID

\* Module level, lines 213-228: the two jobs are scheduled, the
\* configuration is reported, and the startup branch is chosen.
Startup ==
    /\ pc = "boot"
    /\ next_run' = [j \in Jobs |-> NextMark(now, j)]
    /\ pc' = IF AllConfigured(config) THEN "announce" ELSE "run_pending"
    /\ UNCHANGED <<now, file, config, exc, caller, pending, korean_time,
                   current_disclosures, seen_disclosures, idx, new_count, histVars>>

\* send_startup_message.
Announce ==
    /\ pc = "announce"
    /\ \E post \in Channel :
         LET sent == send_telegram_message(post)
         IN IF sent.raised # "none"
            THEN pc' = "dead" /\ exc' = sent.raised
            ELSE pc' = "init_gate" /\ UNCHANGED exc
    /\ boot' = [boot EXCEPT !.announces = Bump(@)]
    /\ UNCHANGED <<now, file, config, caller, pending, next_run, korean_time,
                   current_disclosures, seen_disclosures, idx, new_count,
                   tracked, outcome, cyc, prevFetch, okCount, anyFail, okBefore,
                   okLife, everStored, tries>>

\* Lines 232-234: one immediate cycle when the gate is open.
InitialCheck ==
    /\ pc = "init_gate"
    /\ IF should_check_disclosures(now)
       THEN pc' = "gate" /\ caller' = "init"
       ELSE pc' = "run_pending" /\ UNCHANGED caller
    /\ boot' = [boot EXCEPT !.initAt = now, !.initRan = (pc' = "gate")]
    /\ UNCHANGED <<now, file, config, exc, pending, next_run, korean_time,
                   current_disclosures, seen_disclosures, idx, new_count,
                   tracked, outcome, cyc, prevFetch, okCount, anyFail, okBefore,
                   okLife, everStored, tries>>

\* ---------------------------------------------------------- scheduler
\* schedule.run_pending: collect the runnable jobs.
RunPending ==
    /\ pc = "run_pending"
    /\ pending' = Runnable(now)
    /\ pc' = "jobs"
    /\ UNCHANGED <<now, file, config, exc, caller, next_run, korean_time,
                   current_disclosures, seen_disclosures, idx, new_count, histVars>>

\* run_pending runs the next runnable job, or is done.
RunJob ==
    /\ pc = "jobs"
    /\ IF pending = <<>>
       THEN pc' = "sleep" /\ UNCHANGED caller
       ELSE pc' = "gate" /\ caller' = "sched"
    /\ UNCHANGED <<now, file, config, exc, pending, next_run, korean_time,
                   current_disclosures, seen_disclosures, idx, new_count, histVars>>

\* time.sleep(60).
Sleep ==
    /\ pc = "sleep"
    /\ CanAdvance(SleepSeconds \div 60)
    /\ now' = now + SleepSeconds \div 60
    /\ pc' = "run_pending"
    /\ UNCHANGED <<file, config, exc, caller, pending, next_run, korean_time,
                   current_disclosures, seen_disclosures, idx, new_count, histVars>>

\* ---------------------------------------------- check_new_disclosures
\* Lines 143-147: the time gate.
Gate ==
    /\ pc = "gate"
    /\ korean_time' = now
    /\ cyc' = FreshCycle
    /\ IF ~should_check_disclosures(now)
       THEN Return("skipped", now, NoFetch)
       ELSE /\ pc' = "fetch"
            /\ outcome' = "running"
            /\ UNCHANGED <<pending, next_run, current_disclosures,
                           seen_disclosures, idx, new_count, prevFetch>>
    /\ UNCHANGED <<now, file, config, exc, caller, tracked, okCount, anyFail,
                   okBefore, okLife, everStored, tries, boot>>

\* A request takes up to its 30 s timeout: it may cross a minute boundary.
Delays == {d \in {0, 1} : d = 0 \/ CanAdvance(d)}

\* Lines 152-156: fetch, and return when the list is empty.
Fetch ==
    /\ pc = "fetch"
    /\ \E r \in Upstream, d \in Delays :
         LET got == get_dart_disclosures(r)
         IN /\ now' = now + d
            /\ cyc' = [cyc EXCEPT !.fetched = TRUE,
                                  !.same = (prevFetch = got.value),
                                  !.resp = [raised |-> r.raised,
                                            status_code |-> r.status_code,
                                            status |-> r.status,
                                            n |-> Len(r.list)]]
            /\ IF got.raised # "none"
               THEN /\ Raise(got.raised)
                    /\ prevFetch' = NoFetch
                    /\ UNCHANGED <<current_disclosures, seen_disclosures, idx,
                                   new_count, outcome>>
               ELSE IF NothingFetched(got.value)
               THEN /\ Return("empty_or_error", now + d, got.value)
                    /\ UNCHANGED <<exc, caller, korean_time>>
               ELSE /\ pc' = "load"
                    /\ current_disclosures' = got.value
                    /\ prevFetch' = NoFetch
                    /\ UNCHANGED <<exc, caller, pending, next_run, korean_time,
                                   seen_disclosures, idx, new_count, outcome>>
    /\ UNCHANGED <<file, config, tracked, okCount, anyFail, okBefore, okLife,
                   everStored, tries, boot>>

\* Line 159: load the seen-set.
Load ==
    /\ pc = "load"
    /\ LET loaded == load_seen_disclosures(file)
       IN IF loaded.raised # "none"
          THEN /\ Raise(loaded.raised)
               /\ UNCHANGED <<seen_disclosures, idx, new_count>>
          ELSE /\ pc' = IF Len(current_disclosures) = 0 THEN "save" ELSE "loop"
               /\ seen_disclosures' = loaded.value
               /\ idx' = 1
               /\ new_count' = 0
               /\ UNCHANGED <<exc, caller, pending, next_run, korean_time>>
    /\ cyc' = [cyc EXCEPT !.loaded = TRUE]
    /\ UNCHANGED <<now, file, config, current_disclosures, tracked, outcome,
                   prevFetch, okCount, anyFail, okBefore, okLife, everStored,
                   tries, boot>>

\* Mutant: every record is taken for a new one.
IsNew_always(seen_set, receipt_no) == TRUE

\* Line 166: if receipt_no not in seen_disclosures.
IsNew(seen_set, receipt_no) == receipt_no \notin seen_set

\* Mutant: the list is walked from its end.
NextDisclosure_reversed(list, i) == list[Len(list) + 1 - i]

\* Line 163: for disclosure in current_disclosures.
NextDisclosure(list, i) == list[i]

\* Lines 163-176: one iteration of the for loop.
Iterate ==
    /\ pc = "loop"
    /\ LET disclosure == NextDisclosure(current_disclosures, idx)
           receipt_no == disclosure.rcept_no
           after == IF idx + 1 > Len(current_disclosures) THEN "save" ELSE "loop"
       IN IF receipt_no = NoKey
          THEN \* line 164: disclosure['rcept_no']
               /\ Raise("KeyError")
               /\ UNCHANGED <<now, seen_disclosures, idx, new_count, cyc,
                              okCount, anyFail, okLife, tries>>
          ELSE IF ~IsNew(seen_disclosures, receipt_no)
          THEN /\ pc' = after
               /\ idx' = idx + 1
               /\ UNCHANGED <<now, exc, caller, pending, next_run, korean_time,
                              seen_disclosures, new_count, cyc, okCount, anyFail,
                              okLife, tries>>
          ELSE IF ~disclosure.complete
          THEN \* lines 168, 117-119: a missing key
               /\ Raise("KeyError")
               /\ UNCHANGED <<now, seen_disclosures, idx, new_count, cyc,
                              okCount, anyFail, okLife, tries>>
          ELSE \E post \in Channel, d \in Delays :
                 LET sent == send_telegram_message(post)
                 IN /\ now' = now + d
                    /\ okCount' = IF post = "200" /\ receipt_no = tracked
                                  THEN Bump(okCount) ELSE okCount
                    /\ anyFail' = (anyFail \/ post # "200")
                    /\ okLife' = (okLife \/ (post = "200" /\ receipt_no = tracked))
                    /\ tries' = IF receipt_no = tracked THEN Bump(tries) ELSE tries
                    /\ cyc' = [cyc EXCEPT
                                 !.calls = @ + 1,
                                 !.sent = Append(@, receipt_no),
                                 !.failed = (@ \/ (post # "200" /\ receipt_no = tracked))]
                    /\ IF sent.raised # "none"
                       THEN /\ Raise(sent.raised)
                            /\ UNCHANGED <<seen_disclosures, idx, new_count>>
                       ELSE /\ pc' = after
                            /\ seen_disclosures' = MarkSeen(seen_disclosures, receipt_no)
                            /\ new_count' = new_count + 1
                            /\ idx' = idx + 1
                            /\ UNCHANGED <<exc, caller, pending, next_run,
                                           korean_time>>
    /\ UNCHANGED <<file, config, current_disclosures, tracked, outcome,
                   prevFetch, okBefore, everStored, boot>>

\* Line 61: open the file for writing.
SaveOpen ==
    /\ pc = "save"
    /\ \E opened \in BOOLEAN :
         IF opened
         THEN /\ file' = save_open(file)
              /\ pc' = "save_write"
              /\ cyc' = [cyc EXCEPT !.saved = TRUE]
              /\ UNCHANGED <<exc, caller, pending, next_run, korean_time>>
         ELSE /\ Raise("OSError")
              /\ UNCHANGED <<file, cyc>>
    /\ UNCHANGED <<now, config, current_disclosures, seen_disclosures, idx,
                   new_count, tracked, outcome, prevFetch, okCount, anyFail,
                   okBefore, okLife, everStored, tries, boot>>

\* Line 62 and the end of the with block, then lines 181-184.
SaveWrite ==
    /\ pc = "save_write"
    /\ \E written \in BOOLEAN :
         IF written
         THEN /\ file' = save_write(file, seen_disclosures)
              /\ everStored' = (everStored \/ tracked \in file'.ids)
              /\ Return("done", now, current_disclosures)
              /\ UNCHANGED <<exc, caller, korean_time>>
         ELSE /\ Raise("OSError")
              /\ UNCHANGED <<file, everStored, current_disclosures,
                             seen_disclosures, idx, new_count, outcome, prevFetch>>
    /\ UNCHANGED <<now, config, tracked, cyc, okCount, anyFail, okBefore, okLife,
                   tries, boot>>

\* ------------------------------------------------------- environment
BetweenCycles == pc \in {"run_pending", "jobs", "sleep"}

\* A cycle that has called send for tracked is under way, or an exception
\* has ended it: stopping the process now cuts that cycle short.
CycleCut ==
    /\ pc \in {"loop", "save", "save_write", "dead"}
    /\ \E i \in 1..Len(cyc.sent) : cyc.sent[i] = tracked

\* The process is stopped, or has ended, and is started again.
Restart ==
    /\ pc # "boot"
    /\ pc' = "boot"
    /\ exc' = "none"
    /\ caller' = "none"
    /\ pending' = <<>>
    /\ next_run' = [j \in Jobs |-> 0]
    /\ korean_time' = 0
    /\ current_disclosures' = <<>>
    /\ seen_disclosures' = {}
    /\ idx' = 0
    /\ new_count' = 0
    /\ outcome' = "none"
    /\ cyc' = FreshCycle
    /\ prevFetch' = IF BetweenCycles THEN prevFetch ELSE NoFetch
    /\ okBefore' = (okBefore \/ okLife)
    /\ okLife' = FALSE
    /\ tries' = IF CycleCut THEN 0 ELSE tries
    /\ boot' = FreshBoot
    /\ UNCHANGED <<now, file, config, tracked, okCount, anyFail, everStored>>

Next ==
    \/ Startup
    \/ Announce
    \/ InitialCheck
    \/ RunPending
    \/ RunJob
    \/ Sleep
    \/ Gate
    \/ Fetch
    \/ Load
    \/ Iterate
    \/ SaveOpen
    \/ SaveWrite
    \/ Restart

Spec == Init /\ [][Next]_vars

\* ------------------------------------------------- a blocked scheduler
\* The same program started at BlockedStart and followed for longer.
InitBlocked ==
    /\ now = BlockedStart
    /\ config \in Configs
    /\ tracked = 1
    /\ Fresh

SpecBlocked == InitBlocked /\ [][Next]_vars

\* --------------------------------------------------- the time policy
\* should_check_disclosures applied to the clock of every hour of the week,
\* at the minutes around the marks, on hosts of every timezone.
ProbeMinutes == {0, 29, 30, 59}
ProbeTimes ==
    {UtcOfKst(wd, h, m) : wd \in 0..6, h \in 0..23, m \in ProbeMinutes}
ProbeConfigs ==
    {[DART_API_KEY |-> TRUE, BOT_TOKEN |-> TRUE, CHAT_ID |-> TRUE, TZ |-> z] :
        z \in HostOffsets}

InitPolicy ==
    /\ now \in ProbeTimes
    /\ config \in ProbeConfigs
    /\ tracked = 1
    /\ Fresh

\* Lines 38-49: should_check_disclosures(); the answer is kept in outcome.
PolicyProbe ==
    /\ pc = "boot"
    /\ pc' = "probed"
    /\ outcome' = IF should_check_disclosures(now) THEN "open" ELSE "closed"
    /\ UNCHANGED <<now, file, config, exc, caller, pending, next_run, korean_time,
                   current_disclosures, seen_disclosures, idx, new_count,
                   tracked, cyc, prevFetch, okCount, anyFail, okBefore, okLife,
                   everStored, tries, boot>>

NextPolicy == PolicyProbe

SpecPolicy == InitPolicy /\ [][NextPolicy]_vars

\* ------------------------------------------------------------- claims
\* The store as a load would see it.
Loadable == load_seen_disclosures(file).raised = "none"
Persisted == load_seen_disclosures(file).value

\* C1: when every delivery succeeds, a receipt number is delivered at most
\* once over all the cycles that share the seen-set file.
C1_NoDuplicate == ~anyFail => okCount <= 1

\* C2: a cycle that passes the gate and fetches the list the preceding
\* cycle fetched makes no delivery call.
C2_Idempotent == cyc.same => cyc.calls = 0

C2_Witness ==
    /\ cyc.same
    /\ okLife
    /\ caller = "sched"
    /\ pc = "save"
    /\ Len(current_disclosures) = MaxSnapLen
    /\ cyc.calls = 0

\* C3: a receipt number delivered before a restart is not delivered again
\* after it.
C3_NoRedeliveryAfterRestart == ~(okBefore /\ okLife)

\* C4: outside a running save, a receipt number the persisted seen-set has
\* held is still in it.
C4_MonotoneStore ==
    (pc # "save_write" /\ everStored) => (Loadable /\ tracked \in Persisted)

\* C5: a cycle started on a weekend or at an hour outside 8..21 (UTC+9) ends
\* as skipped with no fetch, no delivery call and no access to the store.
C5_Closed(t) ==
    \/ Weekday(t + 540) \in {5, 6}
    \/ Hour(t + 540) < 8
    \/ Hour(t + 540) > 21

C5_TimeGate ==
    (outcome # "none" /\ C5_Closed(korean_time)) =>
        /\ outcome = "skipped"
        /\ ~cyc.fetched /\ ~cyc.loaded /\ ~cyc.saved
        /\ cyc.calls = 0
        /\ file = cyc.file0

C5_Witness ==
    /\ outcome = "skipped"
    /\ caller = "sched"
    /\ Weekday(korean_time + 540) = 4
    /\ Hour(korean_time + 540) = 22
    /\ file.kind = "json"

\* C6: a cycle whose fetch ended in an upstream error or in the empty result
\* (status 013) makes no delivery call and leaves the store as it was.
UpstreamError(r) ==
    r.raised \/ r.status_code # 200 \/ r.status \notin {"000", "013"}

C6_FetchFailureFrame ==
    (cyc.fetched /\ (UpstreamError(cyc.resp) \/ cyc.resp.status = "013")) =>
        /\ cyc.calls = 0
        /\ ~cyc.loaded /\ ~cyc.saved
        /\ file = cyc.file0

C6_Witness ==
    /\ cyc.fetched
    /\ cyc.resp.status_code = 500
    /\ outcome = "empty_or_error"
    /\ file.kind = "json"

C8_DeliveryFailureContained ==
    /\ exc # "RequestException"
    /\ (cyc.failed /\ pc \in {"loop", "save", "save_write"}) =>
            tracked \in seen_disclosures
    /\ pc \in {"save", "save_write"} => idx = Len(current_disclosures) + 1
    /\ (cyc.failed /\ outcome = "done") =>
            /\ Loadable
            /\ tracked \in Persisted
            /\ \A i \in 1..Len(prevFetch) : prevFetch[i].rcept_no \in Persisted

C8_Witness ==
    /\ outcome = "done"
    /\ cyc.failed
    /\ Len(prevFetch) = 2
    /\ prevFetch[1].rcept_no = tracked
    /\ prevFetch[2].rcept_no # tracked
    /\ cyc.calls = 2
    /\ Persisted = {prevFetch[1].rcept_no, prevFetch[2].rcept_no}

\* C9: no failure inside a cycle ends the process.
C9_NoFailureTerminates == exc = "none"

\* C10: whatever cut an earlier save short, a load finds the store absent
\* or holding a complete set, never a cut-off write.
C10_AtomicSave == pc = "load" => file.kind \in {"absent", "json"}

\* C11: the load answers a store that exists but cannot be parsed with an
\* error, never with an empty set: the cycle ends there, with no send call
\* and the store as it was.  An empty loaded set comes from an absent store.
C11_CorruptStoreReported ==
    /\ (cyc.loaded /\ cyc.file0.kind = "partial") =>
           /\ pc = "dead"
           /\ exc = "JSONDecodeError"
           /\ cyc.sent = <<>>
           /\ ~cyc.saved
           /\ file = cyc.file0
    /\ (cyc.loaded /\ pc = "loop" /\ idx = 1 /\ seen_disclosures = {}) =>
           cyc.file0.kind = "absent"

\* A store that once held tracked is found cut off; the cycle, whose
\* snapshot lists tracked, stops at the load.
C11_Witness ==
    /\ cyc.loaded
    /\ cyc.file0.kind = "partial"
    /\ everStored
    /\ \E i \in 1..Len(current_disclosures) : current_disclosures[i].rcept_no = tracked
    /\ pc = "dead"
    /\ file.kind = "partial"

\* C12: with one of the three values missing at startup, no announcement is
\* sent and no initial check or cycle is run; the process passes straight on
\* to the scheduler loop, so whatever it does later it does from that loop.
C12_MissingConfigStartup ==
    ~(config.DART_API_KEY /\ config.BOT_TOKEN /\ config.CHAT_ID) =>
        /\ boot = FreshBoot
        /\ caller # "init"
        /\ pc \notin {"announce", "init_gate"}
        /\ pc # "boot" => (BetweenCycles \/ caller = "sched")

\* Started without CHAT_ID, the process sleeps in the scheduler loop having
\* run no job yet.
C12_Witness ==
    /\ ~config.CHAT_ID
    /\ pc = "sleep"
    /\ caller = "none"
    /\ boot.announces = 0
    /\ outcome = "none"

\* The receipt numbers of a list, the set the cycle loaded, and how many
\* send calls the cycle made for receipt number r.
Numbers(list) == {list[i].rcept_no : i \in 1..Len(list)}
Loaded0 == load_seen_disclosures(cyc.file0).value
CallsFor(r) == Cardinality({i \in 1..Len(cyc.sent) : cyc.sent[i] = r})
RecordsWith(list, r) == Cardinality({i \in 1..Len(list) : list[i].rcept_no = r})

\* A cycle passed the gate, fetched a status-000 list with a record in it
\* and returned after its save; prevFetch is that list.
C13_CycleDone ==
    /\ outcome = "done"
    /\ cyc.resp.status = "000"
    /\ Len(prevFetch) >= 1

C14_TimePolicy ==
    pc = "probed" =>
        \A wd \in 0..6, h \in 0..23, m \in ProbeMinutes :
            now = UtcOfKst(wd, h, m) =>
                ((outcome = "open") <=> (wd <= 4 /\ h >= 8 /\ h <= 21))

\* Friday 21:59 in Seoul, asked on a host in Los Angeles: open.
C14_Witness ==
    /\ pc = "probed"
    /\ now = UtcOfKst(4, 21, 59)
    /\ config.TZ = 0 - 480
    /\ outcome = "open"

\* The fetch of the cycle was answered without error and with no record:
\* status 013, or status 000 and an empty list.
ZeroRecords ==
    /\ cyc.fetched
    /\ ~UpstreamError(cyc.resp)
    /\ cyc.resp.n = 0

\* C15 as stated: a cycle whose fetch yields zero records has loaded and
\* saved the seen-set by the time it ends, so the store exists afterwards.
C15_EmptyPersists ==
    (ZeroRecords /\ outcome # "running") =>
        cyc.loaded /\ cyc.saved /\ file.kind = "json"

\* C15, amended: a cycle whose fetch yields zero records returns right after
\* the fetch; the seen-set is neither loaded nor saved, no send call is made
\* and the store is as it was, an absent one still absent.
C15_EmptyReturnsEarly ==
    ZeroRecords =>
        /\ outcome = "empty_or_error"
        /\ ~cyc.loaded
        /\ ~cyc.saved
        /\ cyc.sent = <<>>
        /\ file = cyc.file0

\* A scheduled cycle got status 000 with an empty list while the store was
\* absent: it has returned and there is still no store.
C15_Witness ==
    /\ ZeroRecords
    /\ cyc.resp.status = "000"
    /\ caller = "sched"
    /\ outcome = "empty_or_error"
    /\ file.kind = "absent"

\* The receipt numbers of list that are not in seen, each once, in the
\* order of their first record in list.
RECURSIVE NewInOrder(_, _)
NewInOrder(list, seen) ==
    IF list = <<>> THEN <<>>
    ELSE LET r == Head(list).rcept_no
         IN IF r \in seen THEN NewInOrder(Tail(list), seen)
            ELSE <<r>> \o NewInOrder(Tail(list), seen \cup {r})

\* C16: the send calls of a cycle are made one by one for the new records
\* in the order of the fetched list, as fetched and never sorted; the save
\* begins only when the last record has been handled, and begins once.
C16_DeliveryOrder ==
    /\ pc \in {"loop", "save", "save_write"} =>
           cyc.sent = NewInOrder(SubSeq(current_disclosures, 1, idx - 1), Loaded0)
    /\ pc \in {"save", "save_write"} => idx = Len(current_disclosures) + 1
    /\ cyc.saved => pc \notin {"loop", "save"}
    /\ outcome = "done" => cyc.sent = NewInOrder(prevFetch, Loaded0)

\* The list had receipt number 2 before receipt number 1, both new: the
\* send calls were made in that order and the save has begun after them.
C16_Witness ==
    /\ pc = "save_write"
    /\ Len(current_disclosures) = 2
    /\ current_disclosures[1].rcept_no = 2
    /\ current_disclosures[2].rcept_no = 1
    /\ cyc.sent = <<2, 1>>
    /\ cyc.saved

\* C17: with all three values present, a process lifetime first sends one
\* startup announcement, then makes its initial check once and runs a cycle
\* from it exactly when the time of that check is within business hours;
\* no scheduled cycle starts before both are over.
C17_StartupOrder ==
    (config.DART_API_KEY /\ config.BOT_TOKEN /\ config.CHAT_ID) =>
        /\ pc = "announce" => (boot = FreshBoot /\ caller = "none")
        /\ pc = "init_gate" =>
               (boot.announces = 1 /\ boot.initAt = NoTime /\ caller = "none")
        /\ caller = "init" =>
               (boot.announces = 1 /\ boot.initRan /\ ~C5_Closed(boot.initAt))
        /\ (BetweenCycles \/ caller = "sched") =>
               /\ boot.announces = 1
               /\ boot.initAt # NoTime
               /\ boot.initRan <=> ~C5_Closed(boot.initAt)

\* Started on Monday at 08:29: one announcement, a cycle from the initial
\* check, and now the cycle of the 08:30 job is fetching.
C17_Witness ==
    /\ config.DART_API_KEY /\ config.BOT_TOKEN /\ config.CHAT_ID
    /\ caller = "sched"
    /\ pc = "fetch"
    /\ boot.announces = 1
    /\ boot.initRan
    /\ boot.initAt = UtcOfKst(0, 8, 29)

\* A cycle called by the scheduler is under way; its job heads pending.
ScheduledCycle ==
    caller = "sched" /\ pc \in {"gate", "fetch", "load", "loop", "save", "save_write"}

\* C18 as stated: a scheduled cycle starts at its mark, at most the one
\* minute of a wake-up after it, also when an earlier cycle held the loop.
C18_OnTheMark ==
    (caller = "sched" /\ pc = "gate") => now <= next_run[Head(pending)] + 1

\* The job of the cycle that returns in this step gets a mark in the future.
C18_Rescheduled ==
    (ScheduledCycle /\ pc' = "jobs") => next_run'[Head(pending)] > now'

\* A job not due when the loop goes to sleep is at its mark, not past it,
\* when the loop wakes up.
C18_WakeUp ==
    (pc = "sleep" /\ pc' = "run_pending") =>
        \A j \in Jobs : next_run[j] > now => next_run[j] >= now'

\* C18, amended: the marks of the two jobs are the :00 and :30 minutes of
\* the wall clock; a scheduled cycle never starts before its mark; it starts
\* at the mark when the loop was asleep, later when an earlier cycle held
\* the loop; the job is then set to a later mark, so each mark that comes
\* due starts one cycle; the cycle under way is the only one.
C18_AlignedNotEarly ==
    /\ [](/\ pc \notin {"boot", "probed"} =>
               \A j \in Jobs : Minute(next_run[j] + config.TZ) = j
          /\ ScheduledCycle =>
               (pending # <<>> /\ next_run[Head(pending)] <= now))
    /\ [][C18_Rescheduled /\ C18_WakeUp]_vars

\* The 08:30 job starts its cycle at 08:32: the startup cycle, begun at
\* 08:29, held the loop across the mark.
C18_Witness ==
    /\ caller = "sched"
    /\ pc = "fetch"
    /\ Head(pending) = 30
    /\ next_run[30] = UtcOfKst(1, 8, 30)
    /\ korean_time = UtcOfKst(1, 8, 32)
    /\ boot.initRan

\* C19: with a required value missing, no cycle of the process fetches,
\* calls send or writes the seen-set.
C19_IdleWhenUnconfigured ==
    ~(config.DART_API_KEY /\ config.BOT_TOKEN /\ config.CHAT_ID) =>
        (~cyc.fetched /\ cyc.sent = <<>> /\ ~cyc.saved)

\* C20: since the last cycle that was cut short after calling send for it,
\* the tracked receipt number has had at most one send call, failed or not:
\* over cycles that all ran to their end, one attempt at most.
C20_AtMostOneAttempt == tries <= 1

\* The one send call for tracked failed; a later cycle, run to its last
\* record with tracked in its list, found it in the loaded set and made no
\* call for it.
C20_Witness ==
    /\ pc = "save"
    /\ tracked \in Numbers(current_disclosures)
    /\ tracked \in Loaded0
    /\ CallsFor(tracked) = 0
    /\ tries = 1
    /\ okCount = 0

====
